---------------------------- MODULE Spec2Model ----------------------------
(***************************************************************************)
(* State-machine model of the SmartSpin2k target-resolution and motion     *)
(* governance core (src/src/Main.cpp):                                     *)
(*   - the shifter interrupt handlers  SS2K::shiftUp / SS2K::shiftDown     *)
(*     with SS2K::deBounce,                                                *)
(*   - the mode arbiter               SS2K::FTMSModeShiftModifier,         *)
(*   - the motion governor            SS2K::moveStepper,                   *)
(*   - the auxiliary-serial handlers  SS2K::txSerial / pelotonConnected,   *)
(*   - the maintenance task            SS2K::maintenanceLoop,              *)
(*   - the thermal throttle            SS2K::checkDriverTemperature.       *)
(*                                                                         *)
(* Main.cpp in src/ lacks the head of FTMSModeShiftModifier (the function  *)
(* header, the computation of shiftDelta and the first lines of the        *)
(* SetTargetPower case, up to the second half of its bound test on line    *)
(* 253).  Those lines are modelled from spec.md section 4.2 and are marked *)
(* "spec" below; everything else is translated from the source lines       *)
(* named in the comments.                                                  *)
(*                                                                         *)
(* Values of constants that settings.h / Main.h define (not part of src/)  *)
(* are scaled stand-ins that keep the order relations the code relies on.  *)
(***************************************************************************)
EXTENDS Integers, Sequences, FiniteSets, TLC

VARIABLES
  \* ---- rtConfig / ss2k shared runtime state ----
  mode,                 \* rtConfig->getFTMSMode()
  shifterPosition,      \* rtConfig->getShifterPosition()
  lastShifterPosition,  \* ss2k->lastShifterPosition
  targetPosition,       \* ss2k->targetPosition
  targetIncline,        \* rtConfig->getTargetIncline()
  currentIncline,       \* rtConfig->getCurrentIncline()
  wattsTarget,          \* rtConfig->watts.getTarget()
  resTarget,            \* rtConfig->resistance.getTarget()
  resValue,             \* rtConfig->resistance.getValue()
  minResistance,        \* rtConfig->getMinResistance()
  maxResistance,        \* rtConfig->getMaxResistance()
  minStep,              \* rtConfig->getMinStep()
  maxStep,              \* rtConfig->getMaxStep()
  syncMode,             \* ss2k->syncMode
  externalControl,      \* ss2k->externalControl
  \* ---- userConfig ----
  shifterDir,           \* userConfig->getShifterDir(), 0 or 1
  stepperDir,           \* userConfig->getStepperDir()
  pcf,                  \* userConfig->getPowerCorrectionFactor() as <<num, den>>
  \* ---- shifter interrupt ----
  now,                  \* millis()
  lastDebounceTime,     \* ss2k->lastDebounceTime
  \* ---- auxiliary serial ----
  txCheck,              \* ss2k->txCheck
  txCheckInterval,      \* TX_CHECK_INTERVAL of the build
  alternate,            \* static int alternate of txSerial
  \* ---- actuator (FastAccelStepper) and governor task ----
  stepperPos,           \* stepper->getCurrentPosition()
  stepperGoal,          \* the position last passed to stepper->moveTo
  running,              \* stepper->isRunning()
  dirLocal,             \* _stepperDir, local of moveStepper
  dirPin,               \* mapping last given to stepper->setDirectionPin
  govPc,                \* where the moveStepper task is suspended
  \* ---- arbiter and serial handlers, statement by statement ----
  arbPc,                \* where a preemptible FTMSModeShiftModifier call is
  arbDelta,             \* its local shiftDelta
  rxPc,                 \* where a preemptible pelotonConnected call is
  txPc,                 \* where a preemptible txSerial call is
  \* ---- maintenance loop ----
  loopCounter,          \* static int loopCounter of maintenanceLoop
  rebootFlag,           \* ss2k->rebootFlag
  saveFlag,             \* ss2k->saveFlag
  isScanning,           \* static bool isScanning of maintenanceLoop
  scanRunning,          \* NimBLEDevice::getScan()->isScanning()
  intervalTimer2,       \* static intervalTimer2 of maintenanceLoop
  rebootTimer,          \* static rebootTimer of maintenanceLoop
  connectedCount,       \* NimBLEDevice::getServer()->getConnectedCount()
  liveConfig,           \* the user configuration in memory (userConfig)
  storedConfig,         \* the user configuration in the filesystem
  \* ---- driver temperature ----
  temperature,          \* static_cast<int>(temperatureRead())
  tempRead,             \* the reading the last checkDriverTemperature took
  overTemp,             \* static bool overTemp of checkDriverTemperature
  irun,                 \* the value last passed to driver.irun
  \* ---- DebugInfo (SS2KLog.cpp) ----
  logBufferLength,      \* DebugInfo::logBufferLength
  logBufferMutex,       \* the caller holding logBufferMutex, 0 when free
  written,              \* the local written of the append in progress
  logPc,                \* position of each caller in the two functions
  logOut,               \* how the last call of each caller ended
  \* ---- observation (history) variables ----
  scanSeen,             \* a scan was left running by the preceding ~6 s check
  rxEvents,             \* chunks rxSerial has received since the start
  outbox,               \* FTMSControlPointWrite payloads of the last arbiter call
  arb,                  \* what the last arbiter call saw and decided
  isr,                  \* times of the shifter commits and noise resets
  gov                   \* which branch of lines 357-374 the last tick took

vars == <<mode, shifterPosition, lastShifterPosition, targetPosition,
          targetIncline, currentIncline, wattsTarget, resTarget, resValue,
          minResistance, maxResistance, minStep, maxStep, syncMode,
          externalControl, shifterDir, stepperDir, pcf, now,
          lastDebounceTime, txCheck, txCheckInterval, alternate, stepperPos,
          stepperGoal,
          running, dirLocal, dirPin, govPc, arbPc, arbDelta, rxPc, txPc,
          loopCounter, tempRead, rebootFlag, saveFlag, isScanning, scanRunning, intervalTimer2,
          rebootTimer, connectedCount, liveConfig, storedConfig,
          temperature, overTemp, irun, scanSeen, rxEvents, outbox, arb, isr,
          gov, logBufferLength, logBufferMutex, written, logPc, logOut>>

\* Groups used in UNCHANGED clauses.
logVars   == <<logBufferLength, logBufferMutex, written, logPc, logOut>>
cfgVars   == <<minStep, maxStep, shifterDir, pcf, txCheckInterval, logVars>>
isrVars   == <<now, lastDebounceTime, isr>>
auxVars   == <<txCheck, alternate>>
rangeVars == <<minResistance, maxResistance>>
arbVars   == <<lastShifterPosition, wattsTarget, resTarget, outbox, arb>>
raceVars  == <<arbPc, arbDelta, rxPc, txPc>>
mntVars   == <<loopCounter, rebootFlag, saveFlag, isScanning, scanRunning, intervalTimer2,
               rebootTimer, connectedCount, liveConfig, storedConfig,
               scanSeen>>
thermVars == <<temperature, tempRead, overTemp, irun>>
sideVars  == <<raceVars, mntVars, thermVars, rxEvents>>
ctlVars   == <<mode, shifterPosition, targetPosition, targetIncline,
               currentIncline, resValue, syncMode, externalControl,
               stepperDir, minStep, maxStep, shifterDir, pcf, txCheckInterval,
               stepperPos, stepperGoal, running, dirLocal, dirPin, govPc, gov,
               isrVars, auxVars, rangeVars, arbVars, sideVars>>

-----------------------------------------------------------------------------
(* Bounds of the model. *)

MaxShifter == 3      \* |shifterPosition| explored
MaxTime    == 9      \* millis() values explored: 0..MaxTime
ShortTime  == 6      \* the same, where two shifter commits suffice
ShiftTime  == 3      \* the same, where one shifter commit suffices
MaxTravel  == 30     \* |stepper position| explored
MaxLoops   == 4      \* maintenance ticks explored per start of the process
MaxClients == 1      \* remote clients connected at a time
MaxConfig  == 1      \* versions of the user configuration: 0..MaxConfig
MaxRxEvents == 3     \* chunks received on the auxiliary serial port
MaxTxInterval == 3   \* values of TX_CHECK_INTERVAL explored: 1..MaxTxInterval
MaxCallers == 2      \* tasks calling into DebugInfo at the same time
MaxWritten == 4      \* longest formatted log line; -1 is a formatting error

(* Values of the user configuration the specifications run with. *)

maxWatts          == 300   \* userConfig->getMaxWatts()
shiftStep         == 10    \* userConfig->getShiftStep()
inclineMultiplier == 10    \* userConfig->getInclineMultiplier()

(* Program constants.  NudgeStep and the two intervals of the maintenance
   loop are literals of Main.cpp (the intervals scaled, SCAN_CHECK_INTERVAL
   < REBOOT_INTERVAL); the others are defined outside src/ (settings.h,
   Main.h, boards.h) and their values are stand-ins that keep the order
   -DEFAULT_RESISTANCE_RANGE < MIN_PELOTON_RESISTANCE
     < MAX_PELOTON_RESISTANCE < DEFAULT_RESISTANCE_RANGE. *)

debounceDelay            == 2     \* ss2k->debounceDelay
DEFAULT_RESISTANCE_RANGE == 5
MIN_PELOTON_RESISTANCE   == 0
MAX_PELOTON_RESISTANCE   == 3
TX_CHECK_INTERVAL        == 2
ERG_PER_SHIFT            == 25
NudgeStep                == 10    \* the literal 10 of lines 361 and 363
SCAN_CHECK_INTERVAL      == 2     \* the literal 6007 of line 231, scaled
REBOOT_INTERVAL          == 5     \* the literal 1800000 of line 244, scaled
DEBUG_LOG_BUFFER_SIZE    == 6     \* SS2KLog.cpp line 12, scaled
MarkerLength             == 4     \* strlen("...\n"), SS2KLog.cpp line 22
THROTTLE_TEMP            == 72    \* line 514
pwrScaler                == 31    \* currentBoard.pwrScaler, line 515

SetTargetPower           == "SetTargetPower"
SetTargetResistanceLevel == "SetTargetResistanceLevel"
SetIndoorBikeSimulationParameters == "SetIndoorBikeSimulationParameters"
Modes == {SetTargetPower, SetTargetResistanceLevel,
          SetIndoorBikeSimulationParameters}

NoArb == [delta |-> 0, pre |-> 0, post |-> 0, verdict |-> "none",
          mode |-> "none", watts |-> 0, wattsAfter |-> 0, res |-> 0,
          resAfter |-> 0, minR |-> 0, maxR |-> 0, rv |-> 0]
\* isr.on: whether the specification records the commit times.
NoIsr == [on |-> FALSE, commits |-> 0, last |-> 0, gap |-> 0, noise |-> FALSE,
          noiseBetween |-> FALSE]
NoGov == "none"

-----------------------------------------------------------------------------
(* Shifter interrupt: deBounce, shiftUp, shiftDown (lines 433-468). *)

\* deBounce's test, line 435: (millis() - lastDebounceTime) > debounceDelay.
DeBounceNoWait(t, last) == (t - last) > 0
deBounce(t, last) == (t - last) > debounceDelay

\* The position an accepted edge writes: line 448 (up) and line 462 (down).
ShiftUpPosition(pos, dir)   == pos - 1 + dir * 2
ShiftDownPosition(pos, dir) == pos + 1 - dir * 2

\* Lines 451 and 465: the debounce time a noise edge leaves behind (t is
\* millis(), which deBounce has just stored, line 436).
NoiseDebounceTimeKept(t) == t
NoiseDebounceTime(t) == 0

\* One interrupt edge.  pinLow is the result of !digitalRead(pin).
\* deBounce false: nothing changes.  deBounce true: lastDebounceTime = millis();
\* then the position is written (pin low) or lastDebounceTime = 0 (noise).
ShiftEdge(newPos, pinLow) ==
  /\ deBounce(now, lastDebounceTime)
  /\ IF pinLow
       THEN /\ newPos \in -MaxShifter..MaxShifter
            /\ shifterPosition' = newPos
            /\ lastDebounceTime' = now
            /\ isr' = IF isr.on
                        THEN [on |-> TRUE,
                              commits |-> IF isr.commits < 2
                                            THEN isr.commits + 1 ELSE 2,
                              last |-> now,
                              gap |-> IF isr.commits = 0 THEN 0
                                      ELSE now - isr.last,
                              noise |-> FALSE,
                              noiseBetween |-> isr.noise]
                        ELSE isr
       ELSE /\ shifterPosition' = shifterPosition
            /\ lastDebounceTime' = NoiseDebounceTime(now)
            /\ isr' = IF isr.on
                        THEN [isr EXCEPT !.noise = (isr.commits > 0)]
                        ELSE isr
  /\ UNCHANGED <<mode, targetIncline, resValue, syncMode, externalControl,
                 stepperDir, now, cfgVars, sideVars, auxVars, rangeVars, arbVars,
                 stepperPos, stepperGoal, running, dirLocal, dirPin, govPc,
                 currentIncline, targetPosition, gov>>

shiftUp   == \E pinLow \in BOOLEAN :
               ShiftEdge(ShiftUpPosition(shifterPosition, shifterDir), pinLow)
shiftDown == \E pinLow \in BOOLEAN :
               ShiftEdge(ShiftDownPosition(shifterPosition, shifterDir), pinLow)

\* millis() advances, up to the horizon h of the specification.
Tick(h) ==
  /\ now < h
  /\ now' = now + 1
  /\ UNCHANGED <<mode, shifterPosition, targetIncline, resValue, syncMode,
                 externalControl, stepperDir, lastDebounceTime, isr, cfgVars, sideVars,
                 auxVars, rangeVars, arbVars, stepperPos, stepperGoal, running,
                 dirLocal, dirPin, govPc, currentIncline, targetPosition, gov>>

-----------------------------------------------------------------------------
(* Mode arbiter: SS2K::FTMSModeShiftModifier (lines 253-314; head from spec). *)

\* spec 4.2 / 9: the delta of shifterPosition since the arbiter's last
\* observation (the head of the function is not in src/).
ShiftDelta(pos, last) == pos - last

\* SetTargetPower case.  The lower half of the bound test is not in src/
\* (spec 4.2: "newTarget < 0"); the upper half is line 253.
PowerBelowMin(wt, d) == wt + (d * ERG_PER_SHIFT) < 0
PowerAboveMaxCurrent(wt, d) == wt > maxWatts
PowerAboveMax(wt, d) == wt + (d * ERG_PER_SHIFT) > maxWatts

\* Line 257: watts.setTarget(watts.getTarget() + (ERG_PER_SHIFT * shiftDelta)).
PowerNewTarget(wt, d) == wt + (ERG_PER_SHIFT * d)

\* Line 261: int adjustedTarget = target / powerCorrectionFactor.  The factor
\* is a float, here the fraction f[1]/f[2]; the conversion to int truncates
\* (the target is not negative on this path).
AdjustedTarget(wt, f) == (wt * f[2]) \div f[1]

\* Line 262: {SetTargetPower, (uint8_t)(adjusted & 0xff), (uint8_t)(adjusted >> 8)}.
TranslatedHighFirst(adj) == <<SetTargetPower, (adj \div 256) % 256, adj % 256>>
Translated(adj) == <<SetTargetPower, adj % 256, (adj \div 256) % 256>>

\* SetTargetResistanceLevel case, lines 272-281: the new resistance target
\* when a custom range is active.
ResShiftTarget(rt, d, minR, maxR) ==
  IF rt + d < minR THEN minR
  ELSE IF rt + d > maxR THEN maxR
  ELSE rt + d

ResShiftVerdict(rt, d, minR, maxR) ==
  IF rt + d < minR THEN "clampMin"
  ELSE IF rt + d > maxR THEN "clampMax"
  ELSE "accepted"

\* Sim Mode, lines 292-293: the step-limit test on ss2k->targetPosition.
SimStepBlocked(tp, d, minS, maxS) ==
  \/ (tp + d * shiftStep) < minS
  \/ (tp + d * shiftStep) > maxS

\* Sim Mode, lines 296-300: the three "allow" tests on the measured resistance.
SimResistanceAllows(rv, d, minR, maxR) ==
  \/ (rv < minR) /\ (d > 0)
  \/ (rv > maxR) /\ (d < 0)
  \/ (rv > minR) /\ (rv < maxR)

\* Line 307: _controlData.
SimControlData == <<SetIndoorBikeSimulationParameters, 0, 0, 0, 0, 40, 51>>

\* The shifter position the arbiter leaves behind.
\* Power: reset to lastShifterPosition (spec 4.2: a rejected shift reverts
\* shifterPosition).  The reset sits in the part of the case that is not in
\* src/, ahead of the bound test: the visible reject path, lines 254-255,
\* only logs and breaks.
PowerShifter(pos, last) == last

\* Resistance: line 270, setShifterPosition(lastShifterPosition).
ResShifterKeep(pos, last) == pos
ResShifter(pos, last) == last

\* Sim: lines 292-306; the resets are lines 295 and 305.
SimShifter(pos, last, d, tp, rv, minR, maxR, minS, maxS) ==
  IF SimStepBlocked(tp, d, minS, maxS) THEN last
  ELSE IF SimResistanceAllows(rv, d, minR, maxR) THEN pos
  ELSE last

\* The switch on the mode (case labels: lines 268 and 287).
ArbShifter(m, pos, last, d, tp, rv, minR, maxR, minS, maxS) ==
  IF m = SetTargetPower THEN PowerShifter(pos, last)
  ELSE IF m = SetTargetResistanceLevel THEN ResShifter(pos, last)
  ELSE SimShifter(pos, last, d, tp, rv, minR, maxR, minS, maxS)

ArbVerdict(m, d) ==
  IF m = SetTargetPower
    THEN IF PowerBelowMin(wattsTarget, d) \/ PowerAboveMax(wattsTarget, d)
           THEN "rejected" ELSE "accepted"
  ELSE IF m = SetTargetResistanceLevel
    THEN IF maxResistance # DEFAULT_RESISTANCE_RANGE
           THEN ResShiftVerdict(resTarget, d, minResistance, maxResistance)
           ELSE "noop"
  ELSE IF SimStepBlocked(targetPosition, d, minStep, maxStep) THEN "stepBlocked"
  ELSE IF SimResistanceAllows(resValue, d, minResistance, maxResistance)
         THEN "accepted"
  ELSE "resBlocked"

\* One invocation that sees a shift (shiftDelta # 0); with shiftDelta = 0 the
\* function does nothing.
FTMSModeShiftModifier ==
  LET shiftDelta == ShiftDelta(shifterPosition, lastShifterPosition)
      verdict    == ArbVerdict(mode, shiftDelta)
  IN
  /\ shiftDelta # 0
  /\ shifterPosition' = ArbShifter(mode, shifterPosition, lastShifterPosition,
                                   shiftDelta, targetPosition, resValue,
                                   minResistance, maxResistance, minStep, maxStep)
  /\ wattsTarget' = IF mode = SetTargetPower /\ verdict = "accepted"
                      THEN PowerNewTarget(wattsTarget, shiftDelta)
                      ELSE wattsTarget
  /\ resTarget' = IF /\ mode = SetTargetResistanceLevel
                     /\ maxResistance # DEFAULT_RESISTANCE_RANGE
                    THEN ResShiftTarget(resTarget, shiftDelta,
                                        minResistance, maxResistance)
                    ELSE resTarget
  /\ outbox' = IF mode = SetTargetPower
                 THEN IF verdict = "accepted"
                        THEN << Translated(AdjustedTarget(wattsTarget', pcf)) >>
                        ELSE << >>
               ELSE IF mode = SetTargetResistanceLevel THEN << >>
               ELSE << SimControlData >>
  /\ lastShifterPosition' = shifterPosition'                       \* line 311
  /\ arb' = [delta |-> shiftDelta, pre |-> lastShifterPosition,
             post |-> shifterPosition', verdict |-> verdict, mode |-> mode,
             watts |-> wattsTarget, wattsAfter |-> wattsTarget',
             res |-> resTarget, resAfter |-> resTarget',
             minR |-> minResistance, maxR |-> maxResistance,
             rv |-> resValue]
  /\ UNCHANGED <<mode, targetIncline, resValue, syncMode, externalControl,
                 stepperDir, cfgVars, sideVars, isrVars, auxVars, rangeVars, stepperPos,
                 stepperGoal, running, dirLocal, dirPin, govPc, currentIncline,
                 targetPosition, gov>>

(* The same function statement by statement, for the runs in which the
   shifter interrupt preempts it.  The interrupt can fire between any two
   statements; the three steps are the ones between which that matters:
     arbiterRead    the head: shiftDelta is computed and found non-zero
     arbiterSwitch  the switch on the mode (lines 253-309), which reverts
                    shifterPosition or leaves it as it is now
     arbiterRecord  line 311: lastShifterPosition = getShifterPosition() *)

arbiterRead ==
  /\ arbPc = "idle"
  /\ ShiftDelta(shifterPosition, lastShifterPosition) # 0
  /\ arbDelta' = ShiftDelta(shifterPosition, lastShifterPosition)
  /\ arbPc' = "switch"
  /\ UNCHANGED <<mode, shifterPosition, targetIncline, resValue, syncMode,
                 externalControl, stepperDir, cfgVars, rxEvents, isrVars, auxVars,
                 rangeVars, arbVars, rxPc, txPc, mntVars, thermVars,
                 stepperPos, stepperGoal, running, dirLocal, dirPin, govPc,
                 currentIncline, targetPosition, gov>>

arbiterSwitch ==
  LET verdict == ArbVerdict(mode, arbDelta) IN
  /\ arbPc = "switch"
  /\ shifterPosition' = ArbShifter(mode, shifterPosition, lastShifterPosition,
                                   arbDelta, targetPosition, resValue,
                                   minResistance, maxResistance, minStep, maxStep)
  /\ wattsTarget' = IF mode = SetTargetPower /\ verdict = "accepted"
                      THEN PowerNewTarget(wattsTarget, arbDelta)
                      ELSE wattsTarget
  /\ resTarget' = IF /\ mode = SetTargetResistanceLevel
                     /\ maxResistance # DEFAULT_RESISTANCE_RANGE
                    THEN ResShiftTarget(resTarget, arbDelta,
                                        minResistance, maxResistance)
                    ELSE resTarget
  /\ outbox' = IF mode = SetTargetPower
                 THEN IF verdict = "accepted"
                        THEN << Translated(AdjustedTarget(wattsTarget', pcf)) >>
                        ELSE << >>
               ELSE IF mode = SetTargetResistanceLevel THEN << >>
               ELSE << SimControlData >>
  /\ arbPc' = "record"
  /\ UNCHANGED <<mode, targetIncline, resValue, syncMode, externalControl,
                 stepperDir, cfgVars, rxEvents, isrVars, auxVars, rangeVars,
                 lastShifterPosition, arb, arbDelta, rxPc, txPc, mntVars,
                 thermVars, stepperPos, stepperGoal, running, dirLocal, dirPin,
                 govPc, currentIncline, targetPosition, gov>>

arbiterRecord ==
  /\ arbPc = "record"
  /\ lastShifterPosition' = shifterPosition                        \* line 311
  /\ arbPc' = "idle"
  /\ UNCHANGED <<mode, shifterPosition, targetIncline, resValue, syncMode,
                 externalControl, stepperDir, cfgVars, rxEvents, isrVars, auxVars,
                 rangeVars, wattsTarget, resTarget, outbox, arb, arbDelta,
                 rxPc, txPc, mntVars, thermVars, stepperPos, stepperGoal,
                 running, dirLocal, dirPin, govPc, currentIncline,
                 targetPosition, gov>>

-----------------------------------------------------------------------------
(* Motion governor: the loop body of SS2K::moveStepper (lines 336-394).  The
   task is suspended at its vTaskDelay calls; govPc names the one it is at:
     "tick"     before line 337 (start of an iteration)
     "publish"  in the delay of line 376, after the move was commanded
     "dirWait"  in the loop of lines 388-390, waiting for the motor to stop *)

\* Lines 339-348: the target a tick resolves when externalControl is off.
ResolveTargetShiftOnly(m, pos, ti) ==
  IF m = SetTargetPower \/ m = SetTargetResistanceLevel
    THEN ti
    ELSE pos * shiftStep
ResolveTarget(m, pos, ti) ==
  IF m = SetTargetPower \/ m = SetTargetResistanceLevel
    THEN ti
    ELSE pos * shiftStep + ti * inclineMultiplier

\* Lines 357-374: the position passed to stepper->moveTo.  cur is
\* stepper->getCurrentPosition().
MoveCommandNoClamp(tp, cur, rv, minR, maxR, minS, maxS) == tp
MoveCommandRelative(tp, cur, rv, minR, maxR, minS, maxS) ==
  IF maxR # DEFAULT_RESISTANCE_RANGE
    THEN IF (rv >= minR) /\ (rv <= maxR) THEN cur + tp
         ELSE IF rv < minR THEN cur + NudgeStep
         ELSE cur - NudgeStep
    ELSE IF (tp >= minS) /\ (tp <= maxS) THEN cur + tp
         ELSE IF tp <= minS THEN minS
         ELSE maxS
MoveCommandNudgeSwapped(tp, cur, rv, minR, maxR, minS, maxS) ==
  IF maxR # DEFAULT_RESISTANCE_RANGE
    THEN IF (rv >= minR) /\ (rv <= maxR) THEN tp
         ELSE IF rv < minR THEN cur - NudgeStep
         ELSE cur + NudgeStep
    ELSE IF (tp >= minS) /\ (tp <= maxS) THEN tp
         ELSE IF tp <= minS THEN minS
         ELSE maxS
MoveCommand(tp, cur, rv, minR, maxR, minS, maxS) ==
  IF maxR # DEFAULT_RESISTANCE_RANGE
    THEN IF (rv >= minR) /\ (rv <= maxR) THEN tp
         ELSE IF rv < minR THEN cur + NudgeStep
         ELSE cur - NudgeStep
    ELSE IF (tp >= minS) /\ (tp <= maxS) THEN tp
         ELSE IF tp <= minS THEN minS
         ELSE maxS

MoveKind(tp, rv, minR, maxR, minS, maxS) ==
  IF maxR # DEFAULT_RESISTANCE_RANGE
    THEN IF (rv >= minR) /\ (rv <= maxR) THEN "direct"
         ELSE IF rv < minR THEN "nudgeUp"
         ELSE "nudgeDown"
    ELSE IF (tp >= minS) /\ (tp <= maxS) THEN "direct"
         ELSE IF tp <= minS THEN "clampMin"
         ELSE "clampMax"

\* Lines 337-374: resolve the target, recalibrate when syncMode is set
\* (stopMove, setCurrentPosition(targetPosition); the source does not write
\* syncMode), command the move.
moveStepperCommand ==
  LET tp  == IF externalControl THEN targetPosition
             ELSE ResolveTarget(mode, shifterPosition, targetIncline)
      cur == IF syncMode THEN tp ELSE stepperPos
      cmd == MoveCommand(tp, cur, resValue, minResistance, maxResistance,
                         minStep, maxStep)
  IN
  /\ govPc = "tick"
  /\ cmd \in -MaxTravel..MaxTravel
  /\ targetPosition' = tp
  /\ stepperPos' = cur
  /\ stepperGoal' = cmd
  /\ running' = ((cmd # cur) \/ (running /\ ~syncMode))
  /\ govPc' = "publish"
  /\ gov' = MoveKind(tp, resValue, minResistance, maxResistance,
                      minStep, maxStep)
  /\ UNCHANGED <<mode, shifterPosition, targetIncline, resValue, syncMode,
                 externalControl, stepperDir, dirLocal, dirPin, currentIncline,
                 cfgVars, sideVars, isrVars, auxVars, rangeVars, arbVars>>

\* Line 388: the new direction mapping may be applied when the motor is not
\* running.
DirMayApplyAlways(run) == TRUE
DirMayApply(run) == ~run

\* Lines 377-392: publish the measured position; when the configured wiring
\* direction differs from _stepperDir, take it and apply it once the motor
\* is idle.
moveStepperPublish ==
  /\ govPc = "publish"
  /\ currentIncline' = stepperPos
  /\ IF dirLocal # stepperDir
       THEN /\ dirLocal' = stepperDir
            /\ IF DirMayApply(running)
                 THEN dirPin' = stepperDir /\ govPc' = "tick"
                 ELSE dirPin' = dirPin /\ govPc' = "dirWait"
       ELSE /\ UNCHANGED <<dirLocal, dirPin>>
            /\ govPc' = "tick"
  /\ UNCHANGED <<mode, shifterPosition, targetIncline, resValue, syncMode,
                 externalControl, stepperDir, stepperPos, stepperGoal, running,
                 targetPosition, gov, cfgVars, sideVars, isrVars, auxVars, rangeVars,
                 arbVars>>

\* Lines 388-391: the wait loop ends when isRunning() is false.
moveStepperDirWait ==
  /\ govPc = "dirWait"
  /\ DirMayApply(running)
  /\ dirPin' = dirLocal
  /\ govPc' = "tick"
  /\ UNCHANGED <<mode, shifterPosition, targetIncline, resValue, syncMode,
                 externalControl, stepperDir, stepperPos, stepperGoal, running,
                 dirLocal, currentIncline, targetPosition, gov, cfgVars, sideVars,
                 isrVars, auxVars, rangeVars, arbVars>>

\* The actuator (FastAccelStepper, spec 6): while running it moves towards
\* the commanded position, NudgeStep units per step of the model, and
\* reports not-running once it is there.
StepperAdvance ==
  /\ running
  /\ stepperPos' = IF stepperGoal > stepperPos
                     THEN (IF stepperGoal - stepperPos > NudgeStep
                             THEN stepperPos + NudgeStep ELSE stepperGoal)
                   ELSE IF stepperGoal < stepperPos
                     THEN (IF stepperPos - stepperGoal > NudgeStep
                             THEN stepperPos - NudgeStep ELSE stepperGoal)
                   ELSE stepperPos
  /\ running' = (stepperPos' # stepperGoal)
  /\ UNCHANGED <<mode, shifterPosition, targetIncline, resValue, syncMode,
                 externalControl, stepperDir, stepperGoal, dirLocal, dirPin,
                 govPc, currentIncline, targetPosition, gov, cfgVars, sideVars, isrVars,
                 auxVars, rangeVars, arbVars>>

-----------------------------------------------------------------------------
(* Remote commands (spec 6, inbound): the transport collaborator writes the
   decoded value into the shared state.  The handlers are not in src/. *)

SetTargetPowerRemote(w) ==
  /\ wattsTarget' = w
  /\ UNCHANGED <<mode, shifterPosition, lastShifterPosition, targetIncline,
                 resTarget, resValue, syncMode, externalControl, stepperDir,
                 outbox, arb, cfgVars, sideVars, isrVars, auxVars, rangeVars, stepperPos,
                 stepperGoal, running, dirLocal, dirPin, govPc, currentIncline,
                 targetPosition, gov>>

SetTargetResistanceRemote(r) ==
  /\ resTarget' = r
  /\ UNCHANGED <<mode, shifterPosition, lastShifterPosition, targetIncline,
                 wattsTarget, resValue, syncMode, externalControl, stepperDir,
                 outbox, arb, cfgVars, sideVars, isrVars, auxVars, rangeVars, stepperPos,
                 stepperGoal, running, dirLocal, dirPin, govPc, currentIncline,
                 targetPosition, gov>>

SetTargetInclineRemote(i) ==
  /\ targetIncline' = i
  /\ UNCHANGED <<mode, shifterPosition, resValue, syncMode, externalControl,
                 stepperDir, cfgVars, sideVars, isrVars, auxVars, rangeVars, arbVars,
                 stepperPos, stepperGoal, running, dirLocal, dirPin, govPc,
                 currentIncline, targetPosition, gov>>

SetModeRemote(m) ==
  /\ mode' = m
  /\ UNCHANGED <<shifterPosition, targetIncline, resValue, syncMode,
                 externalControl, stepperDir, cfgVars, sideVars, isrVars, auxVars,
                 rangeVars, arbVars, stepperPos, stepperGoal, running, dirLocal,
                 dirPin, govPc, currentIncline, targetPosition, gov>>

\* The decoded "resistance observed" measurement (collectAndSet, line 593).
ResistanceObserved(v) ==
  /\ resValue' = v
  /\ UNCHANGED <<mode, shifterPosition, targetIncline, syncMode,
                 externalControl, stepperDir, cfgVars, sideVars, isrVars, auxVars,
                 rangeVars, arbVars, stepperPos, stepperGoal, running, dirLocal,
                 dirPin, govPc, currentIncline, targetPosition, gov>>

SetSyncModeRemote(b) ==
  /\ syncMode' = b
  /\ UNCHANGED <<mode, shifterPosition, targetIncline, resValue,
                 externalControl, stepperDir, cfgVars, sideVars, isrVars, auxVars,
                 rangeVars, arbVars, stepperPos, stepperGoal, running, dirLocal,
                 dirPin, govPc, currentIncline, targetPosition, gov>>

SetExternalControlRemote(b) ==
  /\ externalControl' = b
  /\ UNCHANGED <<mode, shifterPosition, targetIncline, resValue, syncMode,
                 stepperDir, cfgVars, sideVars, isrVars, auxVars, rangeVars,
                 arbVars, stepperPos, stepperGoal, running, dirLocal, dirPin,
                 govPc, currentIncline, targetPosition, gov>>

\* The user changes the configured direction of the stepper wires
\* (userConfig->setStepperDir, outside src/).
SetStepperDir(b) ==
  /\ stepperDir' = b
  /\ UNCHANGED <<mode, shifterPosition, targetIncline, resValue, syncMode,
                 externalControl, cfgVars, sideVars, isrVars, auxVars, rangeVars, arbVars,
                 stepperPos, stepperGoal, running, dirLocal, dirPin, govPc,
                 currentIncline, targetPosition, gov>>

-----------------------------------------------------------------------------
(* Auxiliary serial: SS2K::txSerial (lines 536-569), SS2K::pelotonConnected
   (lines 571-580).  PELOTON_TX is taken as true (txSerial is only called
   for boards with an auxiliary TX pin, line 206). *)

\* Lines 573-579: the range pelotonConnected selects.
PelotonRange(rv) ==
  IF rv > 0 THEN <<MIN_PELOTON_RESISTANCE, MAX_PELOTON_RESISTANCE>>
  ELSE <<-DEFAULT_RESISTANCE_RANGE, DEFAULT_RESISTANCE_RANGE>>

\* Called by rxSerial (line 584) for every chunk of received bytes.
pelotonConnected ==
  /\ txCheck' = txCheckInterval
  /\ minResistance' = PelotonRange(resValue)[1]
  /\ maxResistance' = PelotonRange(resValue)[2]
  /\ UNCHANGED <<mode, shifterPosition, targetIncline, resValue, syncMode,
                 externalControl, stepperDir, alternate, cfgVars, sideVars, isrVars,
                 arbVars, stepperPos, stepperGoal, running, dirLocal, dirPin,
                 govPc, currentIncline, targetPosition, gov>>

\* Lines 537-558: a request is written; txCheck counts down once per three
\* requests.  Lines 559-568: the back-off, which resets the range.
txSerial ==
  /\ IF txCheck >= 1
       THEN /\ alternate' = IF alternate = 2 THEN 0 ELSE alternate + 1
            /\ txCheck' = IF alternate = 2 THEN txCheck - 1 ELSE txCheck
            /\ UNCHANGED rangeVars
       ELSE /\ txCheck' = (IF txCheck = 0 THEN -txCheckInterval
                           ELSE IF txCheck = -1 THEN 1
                           ELSE txCheck) + 1
            /\ minResistance' = -DEFAULT_RESISTANCE_RANGE
            /\ maxResistance' = DEFAULT_RESISTANCE_RANGE
            /\ UNCHANGED alternate
  /\ UNCHANGED <<mode, shifterPosition, targetIncline, resValue, syncMode,
                 externalControl, stepperDir, cfgVars, sideVars, isrVars, arbVars,
                 stepperPos, stepperGoal, running, dirLocal, dirPin, govPc,
                 currentIncline, targetPosition, gov>>

\* SS2K::rxSerial (lines 582-596), one pass of its loop: pelotonConnected is
\* called (line 584), then the chunk is read and decoded (lines 585-593); v
\* is the measured resistance after the decoding (the old value when the
\* chunk carries no resistance).
rxSerial(v) ==
  /\ rxEvents < MaxRxEvents
  /\ rxEvents' = rxEvents + 1
  /\ txCheck' = txCheckInterval
  /\ minResistance' = PelotonRange(resValue)[1]
  /\ maxResistance' = PelotonRange(resValue)[2]
  /\ resValue' = v
  /\ UNCHANGED <<mode, shifterPosition, targetIncline, syncMode,
                 externalControl, stepperDir, alternate, cfgVars, raceVars,
                 mntVars, thermVars, isrVars, arbVars, stepperPos, stepperGoal,
                 running, dirLocal, dirPin, govPc, currentIncline,
                 targetPosition, gov>>

(* The same two handlers statement by statement.  pelotonConnected runs in
   the serial receive callback (line 112), txSerial in the maintenance task
   (line 207), the governor in its own task (line 160): nothing orders the
   governor's reads of the range against the two setter calls. *)

\* Lines 572-574 / 577: txCheck, the test of the measured resistance, and
\* setMinResistance.
pelotonConnectedMin ==
  /\ rxPc = "idle"
  /\ txCheck' = txCheckInterval
  /\ minResistance' = PelotonRange(resValue)[1]
  /\ rxPc' = IF resValue > 0 THEN "maxPeloton" ELSE "maxDefault"
  /\ UNCHANGED <<mode, shifterPosition, targetIncline, resValue, syncMode,
                 externalControl, stepperDir, alternate, maxResistance,
                 cfgVars, rxEvents, isrVars, arbVars, arbPc, arbDelta, txPc, mntVars,
                 thermVars, stepperPos, stepperGoal, running, dirLocal, dirPin,
                 govPc, currentIncline, targetPosition, gov>>

\* Line 575 / 578: setMaxResistance.
pelotonConnectedMax ==
  /\ rxPc # "idle"
  /\ maxResistance' = IF rxPc = "maxPeloton" THEN MAX_PELOTON_RESISTANCE
                      ELSE DEFAULT_RESISTANCE_RANGE
  /\ rxPc' = "idle"
  /\ UNCHANGED <<mode, shifterPosition, targetIncline, resValue, syncMode,
                 externalControl, stepperDir, auxVars, minResistance,
                 cfgVars, rxEvents, isrVars, arbVars, arbPc, arbDelta, txPc, mntVars,
                 thermVars, stepperPos, stepperGoal, running, dirLocal, dirPin,
                 govPc, currentIncline, targetPosition, gov>>

\* Lines 537-558: txCheck >= 1, a request is written.
txSerialRequest ==
  /\ txPc = "idle"
  /\ txCheck >= 1
  /\ alternate' = IF alternate = 2 THEN 0 ELSE alternate + 1
  /\ txCheck' = IF alternate = 2 THEN txCheck - 1 ELSE txCheck
  /\ UNCHANGED <<mode, shifterPosition, targetIncline, resValue, syncMode,
                 externalControl, stepperDir, rangeVars, cfgVars, sideVars,
                 isrVars, arbVars, stepperPos, stepperGoal, running, dirLocal,
                 dirPin, govPc, currentIncline, targetPosition, gov>>

\* Lines 559-565: txCheck <= 0, the back-off counter and setMinResistance.
txSerialResetMin ==
  /\ txPc = "idle"
  /\ txCheck <= 0
  /\ txCheck' = IF txCheck = 0 THEN -txCheckInterval
                ELSE IF txCheck = -1 THEN 1
                ELSE txCheck
  /\ minResistance' = -DEFAULT_RESISTANCE_RANGE
  /\ txPc' = "max"
  /\ UNCHANGED <<mode, shifterPosition, targetIncline, resValue, syncMode,
                 externalControl, stepperDir, alternate, maxResistance,
                 cfgVars, rxEvents, isrVars, arbVars, arbPc, arbDelta, rxPc, mntVars,
                 thermVars, stepperPos, stepperGoal, running, dirLocal, dirPin,
                 govPc, currentIncline, targetPosition, gov>>

\* Lines 566-567: setMaxResistance and txCheck++.
txSerialResetMax ==
  /\ txPc = "max"
  /\ maxResistance' = DEFAULT_RESISTANCE_RANGE
  /\ txCheck' = txCheck + 1
  /\ txPc' = "idle"
  /\ UNCHANGED <<mode, shifterPosition, targetIncline, resValue, syncMode,
                 externalControl, stepperDir, alternate, minResistance,
                 cfgVars, rxEvents, isrVars, arbVars, arbPc, arbDelta, rxPc, mntVars,
                 thermVars, stepperPos, stepperGoal, running, dirLocal, dirPin,
                 govPc, currentIncline, targetPosition, gov>>

-----------------------------------------------------------------------------
(* Driver temperature: SS2K::checkDriverTemperature (lines 512-526). *)

\* Line 515: uint8_t throttledPower = (THROTTLE_TEMP - reading) + pwrScaler.
\* The conversion to uint8_t keeps the value modulo 256.
ThrottledPower(t) == ((THROTTLE_TEMP - t) + pwrScaler) % 256

\* One call; the reading is what the sensor shows when the call is made.
checkDriverTemperature ==
  /\ tempRead' = temperature
  /\ IF temperature > THROTTLE_TEMP
       THEN /\ irun' = ThrottledPower(temperature)
            /\ overTemp' = TRUE
     ELSE IF temperature < THROTTLE_TEMP
       THEN /\ irun' = IF overTemp THEN pwrScaler ELSE irun
            /\ overTemp' = FALSE
     ELSE UNCHANGED <<irun, overTemp>>
  /\ UNCHANGED <<mode, shifterPosition, targetIncline, resValue, syncMode,
                 externalControl, stepperDir, temperature, cfgVars, rxEvents, raceVars,
                 mntVars, isrVars, auxVars, rangeVars, arbVars, stepperPos,
                 stepperGoal, running, dirLocal, dirPin, govPc, currentIncline,
                 targetPosition, gov>>

\* The thermal sensor (temperatureRead(), spec 6) shows a new value.
TemperatureChange(t) ==
  /\ temperature' = t
  /\ UNCHANGED <<mode, shifterPosition, targetIncline, resValue, syncMode,
                 externalControl, stepperDir, tempRead, overTemp, irun,
                 cfgVars, rxEvents, raceVars, mntVars, isrVars, auxVars, rangeVars,
                 arbVars, stepperPos, stepperGoal, running, dirLocal, dirPin,
                 govPc, currentIncline, targetPosition, gov>>

-----------------------------------------------------------------------------
(* Maintenance task: the loop body of SS2K::maintenanceLoop (lines 200-250).
   The action is one iteration in which line 203 finds no shift to arbitrate
   and the board has no auxiliary TX pin (line 206); the arbiter and
   txSerial, which the iteration calls otherwise, are the actions above. *)

\* Line 231: the ~6 s check is due.
ScanCheckDue(t, timer) == (t - timer) > SCAN_CHECK_INTERVAL

\* Line 233: the scan is stopped.
ScanStops(run, armed) == run /\ armed

\* Line 244: the inactivity restart is requested.
InactivityDueAnyClients(t, timer, n) == (t - timer) > REBOOT_INTERVAL
InactivityDue(t, timer, n) == (t - timer) > REBOOT_INTERVAL /\ n = 0

\* Line 213, ESP.restart(): the process starts again.  The memory is
\* re-initialised, the configuration is loaded from the filesystem (line
\* 124), the clients are gone, the statics of the loops take their initial
\* values (the timers the time of the start).
Restart ==
  /\ shifterPosition' = 0
  /\ lastShifterPosition' = 0
  /\ targetPosition' = 0
  /\ currentIncline' = 0
  /\ syncMode' = FALSE
  /\ externalControl' = FALSE
  /\ lastDebounceTime' = now
  /\ txCheck' = txCheckInterval
  /\ alternate' = 0
  /\ minResistance' = -DEFAULT_RESISTANCE_RANGE
  /\ maxResistance' = DEFAULT_RESISTANCE_RANGE
  /\ stepperPos' = 0
  /\ stepperGoal' = 0
  /\ running' = FALSE
  /\ dirLocal' = stepperDir
  /\ dirPin' = stepperDir
  /\ govPc' = "tick"
  /\ arbPc' = "idle"
  /\ arbDelta' = 0
  /\ rxPc' = "idle"
  /\ txPc' = "idle"
  /\ loopCounter' = 0
  /\ rebootFlag' = FALSE
  /\ saveFlag' = FALSE
  /\ isScanning' = FALSE
  /\ scanRunning' = FALSE
  /\ scanSeen' = FALSE
  /\ intervalTimer2' = now
  /\ rebootTimer' = now
  /\ connectedCount' = 0
  /\ liveConfig' = storedConfig
  /\ overTemp' = FALSE
  /\ irun' = pwrScaler
  /\ outbox' = << >>
  /\ arb' = NoArb
  /\ gov' = NoGov
  /\ rxEvents' = 0
  /\ UNCHANGED <<mode, targetIncline, wattsTarget, resTarget, resValue,
                 stepperDir, cfgVars, now, isr, storedConfig, temperature,
                 tempRead>>

maintenanceLoop ==
  /\ ShiftDelta(shifterPosition, lastShifterPosition) = 0         \* line 203
  /\ loopCounter < MaxLoops
  /\ IF rebootFlag                                            \* lines 211-214
       THEN Restart
       ELSE
         \* lines 217-221
         /\ saveFlag' = FALSE
         /\ storedConfig' = IF saveFlag THEN liveConfig ELSE storedConfig
         \* lines 231-241
         /\ IF ScanCheckDue(now, intervalTimer2)
              THEN /\ scanRunning' = IF ScanStops(scanRunning, isScanning)
                                       THEN FALSE ELSE scanRunning
                   /\ isScanning' = ~ScanStops(scanRunning, isScanning)
                   /\ intervalTimer2' = now
                   /\ scanSeen' = scanRunning'
              ELSE UNCHANGED <<scanRunning, isScanning, intervalTimer2,
                               scanSeen>>
         \* lines 244-247
         /\ rebootFlag' = InactivityDue(now, rebootTimer, connectedCount)
         \* line 249
         /\ loopCounter' = loopCounter + 1
         /\ UNCHANGED <<mode, shifterPosition, targetIncline, resValue,
                        syncMode, externalControl, stepperDir, cfgVars, rxEvents,
                        raceVars, thermVars, isrVars, auxVars, rangeVars,
                        arbVars, rebootTimer, connectedCount, liveConfig,
                        stepperPos, stepperGoal, running, dirLocal, dirPin,
                        govPc, currentIncline, targetPosition, gov>>

(* What the maintenance loop reads is written by collaborators that are not
   in src/ (spec 6): the peer-discovery scan, the transport's client count
   and the handlers that change the configuration and set saveFlag. *)

ScanStart ==
  /\ ~scanRunning
  /\ scanRunning' = TRUE
  /\ UNCHANGED <<mode, shifterPosition, targetIncline, resValue, syncMode,
                 externalControl, stepperDir, cfgVars, rxEvents, raceVars, thermVars,
                 isrVars, auxVars, rangeVars, arbVars, loopCounter, rebootFlag,
                 saveFlag, isScanning, intervalTimer2, rebootTimer,
                 connectedCount, liveConfig, storedConfig, scanSeen,
                 stepperPos, stepperGoal, running, dirLocal, dirPin, govPc,
                 currentIncline, targetPosition, gov>>

ScanEnd ==
  /\ scanRunning
  /\ scanRunning' = FALSE
  /\ UNCHANGED <<mode, shifterPosition, targetIncline, resValue, syncMode,
                 externalControl, stepperDir, cfgVars, rxEvents, raceVars, thermVars,
                 isrVars, auxVars, rangeVars, arbVars, loopCounter, rebootFlag,
                 saveFlag, isScanning, intervalTimer2, rebootTimer,
                 connectedCount, liveConfig, storedConfig, scanSeen,
                 stepperPos, stepperGoal, running, dirLocal, dirPin, govPc,
                 currentIncline, targetPosition, gov>>

ClientCountChange(n) ==
  /\ n # connectedCount
  /\ connectedCount' = n
  /\ UNCHANGED <<mode, shifterPosition, targetIncline, resValue, syncMode,
                 externalControl, stepperDir, cfgVars, rxEvents, raceVars, thermVars,
                 isrVars, auxVars, rangeVars, arbVars, loopCounter, rebootFlag,
                 saveFlag, isScanning, scanRunning, intervalTimer2,
                 rebootTimer, liveConfig, storedConfig, scanSeen, stepperPos,
                 stepperGoal, running, dirLocal, dirPin, govPc, currentIncline,
                 targetPosition, gov>>

SetUserConfig(c) ==
  /\ c # liveConfig
  /\ liveConfig' = c
  /\ saveFlag' = TRUE
  /\ UNCHANGED <<mode, shifterPosition, targetIncline, resValue, syncMode,
                 externalControl, stepperDir, cfgVars, rxEvents, raceVars, thermVars,
                 isrVars, auxVars, rangeVars, arbVars, loopCounter, rebootFlag,
                 isScanning, scanRunning, intervalTimer2, rebootTimer,
                 connectedCount, storedConfig, scanSeen, stepperPos,
                 stepperGoal, running, dirLocal, dirPin, govPc, currentIncline,
                 targetPosition, gov>>

-----------------------------------------------------------------------------
(* DebugInfo (SS2KLog.cpp lines 17-41), one statement group per action so
   that callers interleave.  xSemaphoreTake(logBufferMutex, 0) is atomic and
   does not wait: it takes the free mutex or fails at once, for the task
   that already holds it too. *)

Callers == 1..MaxCallers

\* Lines 21-25: the length after an append of w characters at length len,
\* w being the return value of vsnprintf (the length the text needs, or a
\* negative value); snprintf of the marker returns MarkerLength.
AppendResets(len, w) == w < 0 \/ len + w > DEBUG_LOG_BUFFER_SIZE

AppendLengthNoReset(len, w) == len + w

AppendLength(len, w) ==
  IF AppendResets(len, w) THEN MarkerLength ELSE len + w

\* Line 18, and the implicit return of line 29 when the mutex is taken.
append_logv_internal(c) ==
  /\ logPc[c] = "idle"
  /\ IF logBufferMutex = 0
       THEN /\ logBufferMutex' = c
            /\ logPc' = [logPc EXCEPT ![c] = "vsnprintf"]
            /\ UNCHANGED logOut
       ELSE /\ logOut' = [logOut EXCEPT ![c] = "dropped"]
            /\ UNCHANGED <<logBufferMutex, logPc>>
  /\ UNCHANGED <<logBufferLength, written, ctlVars>>

\* Line 19: vsnprintf writes at most the room left and returns w.
append_logv_vsnprintf(c, w) ==
  /\ logPc[c] = "vsnprintf"
  /\ written' = w
  /\ logPc' = [logPc EXCEPT ![c] = "length"]
  /\ UNCHANGED <<logBufferLength, logBufferMutex, logOut, ctlVars>>

\* Lines 21-25.
append_logv_length(c) ==
  /\ logPc[c] = "length"
  /\ logBufferLength' = AppendLength(logBufferLength, written)
  /\ logOut' = [logOut EXCEPT ![c] =
                  IF AppendResets(logBufferLength, written)
                    THEN "marker" ELSE "appended"]
  /\ logPc' = [logPc EXCEPT ![c] = "give"]
  /\ UNCHANGED <<logBufferMutex, written, ctlVars>>

\* Line 32, and the return "" of line 40 when the mutex is taken.
get_and_clear_logs_internal(c) ==
  /\ logPc[c] = "idle"
  /\ IF logBufferMutex = 0
       THEN /\ logBufferMutex' = c
            /\ logPc' = [logPc EXCEPT ![c] = "copy"]
            /\ UNCHANGED logOut
       ELSE /\ logOut' = [logOut EXCEPT ![c] = "empty"]
            /\ UNCHANGED <<logBufferMutex, logPc>>
  /\ UNCHANGED <<logBufferLength, written, ctlVars>>

\* Lines 33-35: the copy of logBufferLength characters, then the clearing.
get_and_clear_logs_clear(c) ==
  /\ logPc[c] = "copy"
  /\ logBufferLength' = 0
  /\ logOut' = [logOut EXCEPT ![c] = "read"]
  /\ logPc' = [logPc EXCEPT ![c] = "give"]
  /\ UNCHANGED <<logBufferMutex, written, ctlVars>>

\* Lines 27 and 36: xSemaphoreGive, then the return.
xSemaphoreGive(c) ==
  /\ logPc[c] = "give"
  /\ logBufferMutex' = 0
  /\ written' = 0
  /\ logPc' = [logPc EXCEPT ![c] = "idle"]
  /\ UNCHANGED <<logBufferLength, logOut, ctlVars>>

-----------------------------------------------------------------------------
(* The state after construction, with the configuration and the values a
   remote peer has written before the run drawn by the caller. *)

InitStateInterval(m, wt, f, rt, rv, minR, maxR, ti, sd, minS, maxS, track, n) ==
  /\ mode = m
  /\ shifterPosition = 0
  /\ lastShifterPosition = 0
  /\ targetPosition = 0
  /\ targetIncline = ti
  /\ currentIncline = 0
  /\ wattsTarget = wt
  /\ resTarget = rt
  /\ resValue = rv
  /\ minResistance = minR
  /\ maxResistance = maxR
  /\ minStep = minS
  /\ maxStep = maxS
  /\ syncMode = FALSE
  /\ externalControl = FALSE
  /\ shifterDir = sd
  /\ stepperDir = FALSE
  /\ pcf = f
  /\ now = 0
  /\ lastDebounceTime = 0
  /\ txCheck = n
  /\ txCheckInterval = n
  /\ alternate = 0
  /\ stepperPos = 0
  /\ stepperGoal = 0
  /\ running = FALSE
  /\ dirLocal = FALSE
  /\ dirPin = FALSE
  /\ govPc = "tick"
  /\ outbox = << >>
  /\ arb = NoArb
  /\ isr = [NoIsr EXCEPT !.on = track]
  /\ gov = NoGov
  /\ arbPc = "idle"
  /\ arbDelta = 0
  /\ rxPc = "idle"
  /\ txPc = "idle"
  /\ loopCounter = 0
  /\ rebootFlag = FALSE
  /\ saveFlag = FALSE
  /\ isScanning = FALSE
  /\ scanRunning = FALSE
  /\ intervalTimer2 = 0
  /\ rebootTimer = 0
  /\ connectedCount = 0
  /\ liveConfig = 0
  /\ storedConfig = 0
  /\ temperature = THROTTLE_TEMP - 1
  /\ tempRead = THROTTLE_TEMP - 1
  /\ overTemp = FALSE
  /\ irun = pwrScaler
  /\ scanSeen = FALSE
  /\ rxEvents = 0
  /\ logBufferLength = 0
  /\ logBufferMutex = 0
  /\ written = 0
  /\ logPc = [c \in 1..MaxCallers |-> "idle"]
  /\ logOut = [c \in 1..MaxCallers |-> "none"]

InitState(m, wt, f, rt, rv, minR, maxR, ti, sd, minS, maxS, track) ==
  InitStateInterval(m, wt, f, rt, rv, minR, maxR, ti, sd, minS, maxS, track,
                    TX_CHECK_INTERVAL)

-----------------------------------------------------------------------------
(* SpecPower: the shifter and the arbiter in PowerTarget mode. *)

PowerFactors == { <<1, 1>>, <<1, 2>>, <<2, 1>> }   \* 1.0, 0.5, 2.0
PowerStarts  == { 0, 200, maxWatts }

InitPower ==
  \E wt \in PowerStarts, f \in PowerFactors, sd \in {0, 1} :
    InitState(SetTargetPower, wt, f, 0, 0, -DEFAULT_RESISTANCE_RANGE,
              DEFAULT_RESISTANCE_RANGE, 0, sd, -20, 20, FALSE)

NextPower ==
  \/ shiftUp
  \/ shiftDown
  \/ Tick(ShortTime)
  \/ FTMSModeShiftModifier
  \/ \E w \in {0, 10, maxWatts} : SetTargetPowerRemote(w)

SpecPower == InitPower /\ [][NextPower]_vars

\* C2 -- Bound preservation (power): in PowerTarget mode, starting with
\* watts.target in [0,maxWatts], watts.target stays in [0,maxWatts] after any
\* sequence of shifts the arbiter processes; a shift whose new target
\* watts.target + delta*ERG_PER_SHIFT is below 0 or above maxWatts leaves
\* watts.target and shifterPosition at their pre-delta values.
PowerBoundPreserved ==
  /\ wattsTarget \in 0..maxWatts
  /\ (arb.mode = SetTargetPower /\ arb.delta # 0) =>
       LET newTarget == arb.watts + arb.delta * ERG_PER_SHIFT IN
       (newTarget < 0 \/ newTarget > maxWatts) =>
         /\ arb.wattsAfter = arb.watts
         /\ arb.post = arb.pre

\* A shift above maxWatts has been processed and rejected.
PowerRejectSeen ==
  /\ arb.mode = SetTargetPower
  /\ arb.delta # 0
  /\ arb.watts + arb.delta * ERG_PER_SHIFT > maxWatts
  /\ arb.wattsAfter = arb.watts
  /\ shifterPosition = arb.pre

\* C10 -- An accepted shift in PowerTarget mode sets watts.target to the old
\* target plus delta*ERG_PER_SHIFT and emits exactly one set-target-power
\* command: the opcode, then the low byte, then the high byte of the
\* corrected target (low + 256*high = corrected watts); a rejected shift
\* emits no command.
PowerCommandEncoding ==
  (arb.mode = SetTargetPower /\ arb.delta # 0) =>
    LET newTarget == arb.watts + arb.delta * ERG_PER_SHIFT
        corrected == (newTarget * pcf[2]) \div pcf[1]
    IN
    IF newTarget >= 0 /\ newTarget <= maxWatts
      THEN /\ arb.wattsAfter = newTarget
           /\ Len(outbox) = 1
           /\ Len(outbox[1]) = 3
           /\ outbox[1][1] = SetTargetPower
           /\ outbox[1][2] \in 0..255
           /\ outbox[1][3] \in 0..255
           /\ outbox[1][2] + 256 * outbox[1][3] = corrected
      ELSE outbox = << >>

\* Scenario B of the spec: target 200, one 25 W shift, correction factor 1.
PowerCommandSeen ==
  /\ arb.mode = SetTargetPower
  /\ arb.watts = 200
  /\ arb.delta * ERG_PER_SHIFT = 25
  /\ pcf = <<1, 1>>
  /\ arb.wattsAfter = 225
  /\ outbox = << <<SetTargetPower, 225, 0>> >>

-----------------------------------------------------------------------------
(* SpecRes: the shifter, the arbiter in ResistanceTarget mode, the remote
   resistance target and the auxiliary-serial handlers that change the
   resistance range. *)

InitRes ==
  \E rt \in {0, DEFAULT_RESISTANCE_RANGE - 1}, rv \in {0, 1} :
    InitState(SetTargetResistanceLevel, 0, <<1, 1>>, rt, rv,
              -DEFAULT_RESISTANCE_RANGE, DEFAULT_RESISTANCE_RANGE, 0, 0,
              -20, 20, FALSE)

\* The remote peer writes a target inside the range in force at the write
\* (1 lies in the default and in the peer-specific range).
NextRes ==
  \/ shiftUp
  \/ shiftDown
  \/ Tick(ShortTime)
  \/ FTMSModeShiftModifier
  \/ \E r \in {minResistance, 1, maxResistance} : SetTargetResistanceRemote(r)
  \/ \E v \in {0, 1} : ResistanceObserved(v)
  \/ pelotonConnected
  \/ txSerial

SpecRes == InitRes /\ [][NextRes]_vars

\* C3 -- Resistance-mode reset: after the arbiter processes any shift while
\* the mode is ResistanceTarget (custom range active or not, target clamped
\* or not), shifterPosition equals the value it had immediately before the
\* shift.
ResistanceShiftReset ==
  (arb.mode = SetTargetResistanceLevel /\ arb.delta # 0) => arb.post = arb.pre

\* A resistance-mode shift that saturated at the upper bound of a custom
\* range has been processed.
ResistanceShiftSeen ==
  /\ arb.mode = SetTargetResistanceLevel
  /\ arb.delta # 0
  /\ arb.maxR # DEFAULT_RESISTANCE_RANGE
  /\ arb.res + arb.delta > arb.maxR
  /\ arb.resAfter = arb.maxR
  /\ shifterPosition = arb.pre

\* C4 -- Whenever a custom resistance range is active (maxResistance differs
\* from the default-range sentinel), resistance.target lies in
\* [minResistance, maxResistance].
ResTargetInRange ==
  (maxResistance # DEFAULT_RESISTANCE_RANGE) =>
    (resTarget >= minResistance /\ resTarget <= maxResistance)

-----------------------------------------------------------------------------
(* SpecGov: the governor task and the actuator in SlopeSimulation mode, with
   the remote incline, the measured resistance, the resistance range and
   syncMode changing under it. *)

InitGov ==
  InitState(SetIndoorBikeSimulationParameters, 0, <<1, 1>>, 0, 0,
            -DEFAULT_RESISTANCE_RANGE, DEFAULT_RESISTANCE_RANGE, 0, 0, -20, 20,
            FALSE)

NextGov ==
  \/ moveStepperCommand
  \/ moveStepperPublish
  \/ StepperAdvance
  \/ \E i \in {-3, -2, 0, 1, 3} : SetTargetInclineRemote(i)
  \/ \E v \in {-1, 1, MAX_PELOTON_RESISTANCE + 1} : ResistanceObserved(v)
  \/ pelotonConnected
  \/ \E b \in BOOLEAN : SetSyncModeRemote(b)

SpecGov == InitGov /\ [][NextGov]_vars

\* A governor tick commands its move in this step.
CommandStep == govPc = "tick" /\ govPc' = "publish"

\* A governor tick publishes currentIncline in this step.
PublishStep == govPc = "publish" /\ govPc' # "publish"

\* The target the next tick resolves.
TickTarget ==
  IF externalControl THEN targetPosition
  ELSE ResolveTarget(mode, shifterPosition, targetIncline)

\* The actuator rests at the target the next tick resolves.
AtTarget == ~running /\ stepperPos = TickTarget

\* The tick commands the target itself: the measured resistance is inside a
\* custom range, or no custom range is active and the target is inside the
\* step bounds.
CommandsTarget ==
  IF maxResistance # DEFAULT_RESISTANCE_RANGE
    THEN resValue >= minResistance /\ resValue <= maxResistance
    ELSE TickTarget >= minStep /\ TickTarget <= maxStep

\* C7 (as claimed) -- Idempotent convergence: if the actuator's position
\* already equals the resolved target, a governor tick commands no position
\* different from the current one, in default-range mode and when a custom
\* resistance range is active.
IdempotentConvergenceAlways ==
  [][ (CommandStep /\ AtTarget) => stepperGoal' = stepperPos ]_vars

\* C7 (amended) -- if the actuator rests at the resolved target and the tick
\* commands the target itself (measured resistance inside the custom range,
\* or default range and target inside [minStep,maxStep]), the tick commands
\* the current position, the actuator stays where it is and not running, and
\* the publish that follows leaves currentIncline at the value it had.
IdempotentConvergence ==
  /\ [][ (CommandStep /\ AtTarget /\ CommandsTarget) =>
           /\ stepperGoal' = stepperPos
           /\ stepperPos' = stepperPos
           /\ ~running' ]_vars
  /\ [][ (PublishStep /\ ~running /\ stepperGoal = stepperPos
            /\ currentIncline = stepperPos) =>
           currentIncline' = currentIncline ]_vars

\* A tick found the actuator at rest at a non-zero target inside an active
\* custom range and commanded that same position; currentIncline already
\* shows it.
ConvergedTickSeen ==
  /\ govPc = "publish"
  /\ gov = "direct"
  /\ maxResistance # DEFAULT_RESISTANCE_RANGE
  /\ targetPosition # 0
  /\ stepperPos = targetPosition
  /\ stepperGoal = stepperPos
  /\ ~running
  /\ currentIncline = stepperPos

\* C8 -- In default-range mode every position the governor passes to moveTo
\* lies in [minStep,maxStep]: targetPosition when that is inside, minStep
\* when it is below, maxStep when it is above.
DefaultRangeClamp ==
  [][ (CommandStep /\ maxResistance = DEFAULT_RESISTANCE_RANGE) =>
        /\ stepperGoal' >= minStep
        /\ stepperGoal' <= maxStep
        /\ stepperGoal' = (IF targetPosition' < minStep THEN minStep
                           ELSE IF targetPosition' > maxStep THEN maxStep
                           ELSE targetPosition') ]_vars

\* A tick in default-range mode resolved a target above maxStep and
\* commanded maxStep.
DefaultRangeClampSeen ==
  /\ govPc = "publish"
  /\ gov = "clampMax"
  /\ maxResistance = DEFAULT_RESISTANCE_RANGE
  /\ targetPosition > maxStep
  /\ stepperGoal = maxStep

\* C9 -- With a custom resistance range active, a tick commands
\* targetPosition only if the measured resistance is inside
\* [minResistance,maxResistance] (bounds included); above maxResistance it
\* commands the current position minus the fixed increment, below
\* minResistance the current position plus the increment.
CustomRangeStrategy ==
  [][ (CommandStep /\ maxResistance # DEFAULT_RESISTANCE_RANGE) =>
        stepperGoal' =
          (IF resValue >= minResistance /\ resValue <= maxResistance
             THEN targetPosition'
           ELSE IF resValue > maxResistance THEN stepperPos' - NudgeStep
           ELSE stepperPos' + NudgeStep) ]_vars

\* Scenario C of the spec: measured resistance above the custom maximum, the
\* tick commanded one increment below the current position, not the target.
NudgeDownSeen ==
  /\ govPc = "publish"
  /\ gov = "nudgeDown"
  /\ maxResistance # DEFAULT_RESISTANCE_RANGE
  /\ resValue > maxResistance
  /\ stepperGoal = stepperPos - NudgeStep
  /\ stepperGoal # targetPosition

\* C23 -- With a custom resistance range active, every position the
\* governor passes to moveTo, the direct target and the fixed-increment
\* nudges alike, lies in [minStep,maxStep].
CustomRangeWithinSteps ==
  [][ (CommandStep /\ maxResistance # DEFAULT_RESISTANCE_RANGE) =>
        (stepperGoal' >= minStep /\ stepperGoal' <= maxStep) ]_vars

\* C12 -- A governor tick that starts with syncMode set sets the actuator's
\* position counter to targetPosition and clears syncMode: after the tick
\* syncMode is false.
SyncModeCleared ==
  [][ (CommandStep /\ syncMode) =>
        (stepperPos' = targetPosition' /\ ~syncMode') ]_vars

-----------------------------------------------------------------------------
(* SpecDir: the governor task and the actuator in PowerTarget mode, with the
   remote incline and the configured wiring direction changing under it. *)

InitDir ==
  InitState(SetTargetPower, 0, <<1, 1>>, 0, 0, -DEFAULT_RESISTANCE_RANGE,
            DEFAULT_RESISTANCE_RANGE, 0, 0, -20, 20, FALSE)

NextDir ==
  \/ moveStepperCommand
  \/ moveStepperPublish
  \/ moveStepperDirWait
  \/ StepperAdvance
  \/ \E i \in {-20, 0, 20} : SetTargetInclineRemote(i)
  \/ \E b \in BOOLEAN : SetStepperDir(b)

SpecDir == InitDir /\ [][NextDir]_vars

\* C6 -- Direction-change safety: after the initial configuration the
\* governor applies a new direction mapping only in a step in which the
\* actuator reports not running; a changed wiring direction found while the
\* actuator runs leaves the old mapping in place and the task waiting, and
\* when the wait ends the mapping taken is applied.
DirectionChangeSafe ==
  /\ [](govPc # "dirWait" => dirPin = dirLocal)
  /\ [][ dirPin' # dirPin => (~running /\ dirPin' = dirLocal') ]_vars
  /\ [][ (PublishStep /\ running /\ dirLocal # stepperDir) =>
           (dirPin' = dirPin /\ govPc' = "dirWait") ]_vars
  /\ [][ (govPc = "dirWait" /\ govPc' # "dirWait") =>
           (~running /\ dirPin' = dirLocal) ]_vars

\* The wiring direction was changed while the actuator runs: the governor
\* waits and the old mapping is still applied.
DirectionWaitSeen ==
  /\ govPc = "dirWait"
  /\ running
  /\ dirPin # dirLocal
  /\ dirLocal = stepperDir

-----------------------------------------------------------------------------
(* SpecSim: the shifter, the arbiter and the governor in SlopeSimulation
   mode, with targetIncline and the step bounds fixed. *)

InitSim ==
  \E sd \in {0, 1} :
    InitState(SetIndoorBikeSimulationParameters, 0, <<1, 1>>, 0, 0,
              -DEFAULT_RESISTANCE_RANGE, DEFAULT_RESISTANCE_RANGE, 0, sd,
              -20, 20, FALSE)

NextSim ==
  \/ shiftUp
  \/ shiftDown
  \/ Tick(MaxTime)
  \/ FTMSModeShiftModifier
  \/ moveStepperCommand
  \/ moveStepperPublish
  \/ StepperAdvance

SpecSim == InitSim /\ [][NextSim]_vars

\* C1 -- Bound preservation (simulation): in SlopeSimulation mode with
\* targetIncline and the step bounds fixed and the resolved target initially
\* inside the bounds, under any interleaving of shifter edges, arbiter
\* invocations and governor ticks, once the arbiter has processed a delta
\* the resolved target shifterPosition*shiftStep +
\* targetIncline*inclineMultiplier lies in [minStep,maxStep]; a delta that
\* would take it outside leaves shifterPosition at its pre-delta value.
SimBoundPreserved ==
  (arb.mode = SetIndoorBikeSimulationParameters /\ arb.delta # 0) =>
    LET resolved(pos) == pos * shiftStep + targetIncline * inclineMultiplier
    IN
    /\ resolved(arb.post) >= minStep
    /\ resolved(arb.post) <= maxStep
    /\ (resolved(arb.pre + arb.delta) < minStep
          \/ resolved(arb.pre + arb.delta) > maxStep) => arb.post = arb.pre

-----------------------------------------------------------------------------
(* SpecDebounce: the two shifter interrupts and the clock, with the times of
   the commits recorded. *)

InitDebounce ==
  \E sd \in {0, 1} :
    InitState(SetIndoorBikeSimulationParameters, 0, <<1, 1>>, 0, 0,
              -DEFAULT_RESISTANCE_RANGE, DEFAULT_RESISTANCE_RANGE, 0, sd,
              -20, 20, TRUE)

NextDebounce ==
  \/ shiftUp
  \/ shiftDown
  \/ Tick(MaxTime)

SpecDebounce == InitDebounce /\ [][NextDebounce]_vars

\* C5 -- Debounce suppression: of two interrupt edges (shiftUp and/or
\* shiftDown, one shared timer) whose arrival times differ by less than
\* debounceDelay at most one changes shifterPosition, also when an edge
\* rejected as noise has reset lastDebounceTime to zero in between: the
\* times of two successive commits differ by at least debounceDelay.
DebounceSuppression ==
  (isr.commits = 2) => (isr.gap >= debounceDelay)

\* Two edges were committed with a noise reset between them.
DebounceNoiseBetweenSeen ==
  /\ isr.commits = 2
  /\ isr.noiseBetween
  /\ lastDebounceTime = now

\* C21 -- Noise rejection: an edge that passes the debounce check and does
\* not change shifterPosition (the pin re-sample does not show the asserted
\* level) resets lastDebounceTime to zero, so that an edge arriving right
\* after it, on either input, passes the debounce check; the timer is reset
\* to zero by such an edge only.
NoiseRejection ==
  /\ [][ (now' = now /\ shifterPosition' = shifterPosition) =>
           /\ deBounce(now, lastDebounceTime)
           /\ lastDebounceTime' = 0
           /\ deBounce(now', lastDebounceTime') ]_vars
  /\ [][ (lastDebounceTime' = 0 /\ lastDebounceTime # 0) =>
           (now' = now /\ shifterPosition' = shifterPosition) ]_vars

\* An edge was committed, a later edge was rejected as noise: the position
\* is the committed one and the timer is zero.
NoiseResetSeen ==
  /\ isr.commits = 1
  /\ isr.noise
  /\ shifterPosition # 0
  /\ lastDebounceTime = 0
  /\ deBounce(now, lastDebounceTime)

-----------------------------------------------------------------------------
(* SpecTarget: the governor with everything that feeds its target changing
   under it: the remote mode, the remote incline, externalControl, and the
   shifter with the arbiter. *)

InitTarget ==
  InitState(SetIndoorBikeSimulationParameters, 0, <<1, 1>>, 0, 0,
            -DEFAULT_RESISTANCE_RANGE, DEFAULT_RESISTANCE_RANGE, 0, 0, -20, 20,
            FALSE)

NextTarget ==
  \/ shiftUp
  \/ shiftDown
  \/ Tick(ShiftTime)
  \/ FTMSModeShiftModifier
  \/ moveStepperCommand
  \/ moveStepperPublish
  \/ StepperAdvance
  \/ \E m \in Modes : SetModeRemote(m)
  \/ \E i \in {0, 3} : SetTargetInclineRemote(i)
  \/ \E b \in BOOLEAN : SetExternalControlRemote(b)

SpecTarget == InitTarget /\ [][NextTarget]_vars

\* C11 -- With externalControl off, a governor tick resolves targetPosition
\* from the mode, shifterPosition and targetIncline in force when it starts:
\* targetIncline in PowerTarget and ResistanceTarget mode,
\* shifterPosition*shiftStep + targetIncline*inclineMultiplier in
\* SlopeSimulation; and in default-range mode with that target inside
\* [minStep,maxStep] the tick commands it.
FreshTargetResolution ==
  [][ (CommandStep /\ ~externalControl) =>
        /\ targetPosition' =
             (IF mode = SetIndoorBikeSimulationParameters
                THEN shifterPosition * shiftStep
                       + targetIncline * inclineMultiplier
                ELSE targetIncline)
        /\ (/\ maxResistance = DEFAULT_RESISTANCE_RANGE
            /\ targetPosition' >= minStep
            /\ targetPosition' <= maxStep) => stepperGoal' = targetPosition'
    ]_vars

\* The example of the claim, scaled to shiftStep = 10: SlopeSimulation,
\* shifter position -1 accepted by the arbiter, incline 0; the tick that
\* started after the shift commanded -shiftStep.
FreshShiftCommanded ==
  /\ govPc = "publish"
  /\ ~externalControl
  /\ mode = SetIndoorBikeSimulationParameters
  /\ shifterPosition = -1
  /\ lastShifterPosition = -1
  /\ targetIncline = 0
  /\ targetPosition = -shiftStep
  /\ stepperGoal = -shiftStep

-----------------------------------------------------------------------------
(* SpecRace: the shifter interrupts preempting the arbiter in
   SlopeSimulation mode. *)

InitRace ==
  \E sd \in {0, 1} :
    InitState(SetIndoorBikeSimulationParameters, 0, <<1, 1>>, 0, 0,
              -DEFAULT_RESISTANCE_RANGE, DEFAULT_RESISTANCE_RANGE, 0, sd,
              -20, 20, FALSE)

NextRace ==
  \/ shiftUp
  \/ shiftDown
  \/ Tick(MaxTime)
  \/ arbiterRead
  \/ arbiterSwitch
  \/ arbiterRecord

SpecRace == InitRace /\ [][NextRace]_vars

\* C13 -- Every position change the interrupt handler commits is arbitrated
\* exactly once: a revert by the arbiter overwrites nothing but the delta it
\* computed, and what the arbiter records into lastShifterPosition is the
\* delta it computed and bound-checked, or nothing when it reverted.
ShiftArbitratedOnce ==
  /\ [][ (arbPc = "switch" /\ arbPc' = "record"
            /\ shifterPosition' # shifterPosition) =>
           shifterPosition = lastShifterPosition + arbDelta ]_vars
  /\ [][ (arbPc = "record" /\ arbPc' = "idle") =>
           lastShifterPosition' - lastShifterPosition \in {0, arbDelta} ]_vars

-----------------------------------------------------------------------------
(* SpecPair: the auxiliary-serial handlers changing the resistance range
   while the governor ticks and the arbiter processes shifts
   (SlopeSimulation).  The arbiter shares the maintenance task with txSerial
   and runs only between two txSerial calls. *)

InitPair ==
  \E rv \in {0, 1} :
    InitState(SetIndoorBikeSimulationParameters, 0, <<1, 1>>, 0, rv,
              -DEFAULT_RESISTANCE_RANGE, DEFAULT_RESISTANCE_RANGE, 0, 0,
              -20, 20, FALSE)

NextPair ==
  \/ pelotonConnectedMin
  \/ pelotonConnectedMax
  \/ txSerialRequest
  \/ txSerialResetMin
  \/ txSerialResetMax
  \/ \E v \in {0, 1} : ResistanceObserved(v)
  \/ moveStepperCommand
  \/ moveStepperPublish
  \/ StepperAdvance
  \/ shiftUp
  \/ shiftDown
  \/ Tick(ShiftTime)
  \/ (txPc = "idle" /\ FTMSModeShiftModifier)

SpecPair == InitPair /\ [][NextPair]_vars

\* The pairs the handlers write: the default range and the peer's range.
RangePairs ==
  { <<-DEFAULT_RESISTANCE_RANGE, DEFAULT_RESISTANCE_RANGE>>,
    <<MIN_PELOTON_RESISTANCE, MAX_PELOTON_RESISTANCE>> }

\* C14 -- The pair (minResistance, maxResistance) a governor tick or an
\* arbiter invocation reads is one the handlers wrote as a pair, never one
\* new bound with one old bound.
RangePairConsistent ==
  /\ [](arb.mode # "none" => <<arb.minR, arb.maxR>> \in RangePairs)
  /\ [][ CommandStep => <<minResistance, maxResistance>> \in RangePairs ]_vars

-----------------------------------------------------------------------------
(* SpecSimRes: the shifter and the arbiter in SlopeSimulation mode, with the
   measured resistance below, at, inside and above the bounds of the range
   in force. *)

SimResValues ==
  { MIN_PELOTON_RESISTANCE - 1, MIN_PELOTON_RESISTANCE,
    MIN_PELOTON_RESISTANCE + 1, MAX_PELOTON_RESISTANCE,
    MAX_PELOTON_RESISTANCE + 1 }

InitSimRes ==
  \E r \in RangePairs, rv \in SimResValues :
    InitState(SetIndoorBikeSimulationParameters, 0, <<1, 1>>, 0, rv,
              r[1], r[2], 0, 0, -20, 20, FALSE)

NextSimRes ==
  \/ shiftUp
  \/ shiftDown
  \/ Tick(ShortTime)
  \/ FTMSModeShiftModifier
  \/ \E v \in SimResValues : ResistanceObserved(v)

SpecSimRes == InitSimRes /\ [][NextSimRes]_vars

\* C15 -- In SlopeSimulation mode, for a delta that passes the step-limit
\* check: with the measured resistance in [minResistance,maxResistance],
\* bounds included, the shift is accepted whatever its direction; below
\* minResistance only positive deltas are accepted, above maxResistance only
\* negative ones; every other delta leaves shifterPosition at its pre-shift
\* value.
SimResistanceGuard ==
  (/\ arb.mode = SetIndoorBikeSimulationParameters
   /\ arb.delta # 0
   /\ arb.verdict # "stepBlocked") =>
    arb.post =
      (IF arb.rv >= arb.minR /\ arb.rv <= arb.maxR THEN arb.pre + arb.delta
       ELSE IF arb.rv < arb.minR
         THEN (IF arb.delta > 0 THEN arb.pre + arb.delta ELSE arb.pre)
       ELSE (IF arb.delta < 0 THEN arb.pre + arb.delta ELSE arb.pre))

-----------------------------------------------------------------------------
(* SpecMaint: the maintenance loop with the clock, the peer-discovery scan,
   the client count and the configuration changing under it. *)

InitMaint ==
  InitState(SetIndoorBikeSimulationParameters, 0, <<1, 1>>, 0, 0,
            -DEFAULT_RESISTANCE_RANGE, DEFAULT_RESISTANCE_RANGE, 0, 0, -20, 20,
            FALSE)

NextMaint ==
  \/ maintenanceLoop
  \/ Tick(MaxTime)
  \/ ScanStart
  \/ ScanEnd
  \/ \E n \in 0..MaxClients : ClientCountChange(n)
  \/ \E c \in 0..MaxConfig : SetUserConfig(c)

SpecMaint == InitMaint /\ [][NextMaint]_vars

\* An iteration of the maintenance loop that does not restart the process.
MaintenanceStep == loopCounter' = loopCounter + 1

\* An iteration that restarts the process (only a restart clears rebootFlag).
RestartStep == rebootFlag /\ ~rebootFlag'

\* An iteration in which the ~6 s check runs.
ScanCheckStep == MaintenanceStep /\ ScanCheckDue(now, intervalTimer2)

\* C16 -- Scan watchdog: a ~6 s check force-stops the scan exactly when the
\* scan is running at this check and was left running by the immediately
\* preceding check; a scan seen running at only one of two consecutive
\* checks is not stopped.
ScanStoppedOnSecondCheck ==
  [][ ScanCheckStep =>
        ((scanRunning /\ ~scanRunning') <=> (scanRunning /\ scanSeen)) ]_vars

\* C17 -- Every maintenance iteration that starts with saveFlag set persists
\* the configuration and clears the flag, also when rebootFlag is set in the
\* same iteration: the save comes before the restart.
SaveBeforeRestart ==
  [][ ((MaintenanceStep \/ RestartStep) /\ saveFlag) =>
        (storedConfig' = liveConfig /\ ~saveFlag') ]_vars

\* C18 (as claimed) -- the loop sets rebootFlag only when the inactivity
\* timer has elapsed and no client is connected, and the restart for that
\* flag happens only while still no client is connected.
InactivityRestartWithoutClients ==
  /\ [][ (~rebootFlag /\ rebootFlag') =>
           ((now - rebootTimer) > REBOOT_INTERVAL /\ connectedCount = 0) ]_vars
  /\ [][ RestartStep => connectedCount = 0 ]_vars

\* C18 (amended) -- the loop sets rebootFlag only when the inactivity timer
\* has elapsed and no client is connected at that moment, never with a
\* client connected; the next iteration restarts the process whatever the
\* client count is by then.
InactivityFlagWithoutClients ==
  /\ [][ (~rebootFlag /\ rebootFlag') =>
           ((now - rebootTimer) > REBOOT_INTERVAL /\ connectedCount = 0) ]_vars
  /\ [][ (MaintenanceStep /\ connectedCount > 0) => ~rebootFlag' ]_vars
  /\ [][ (rebootFlag /\ loopCounter' # loopCounter) =>
           (RestartStep /\ loopCounter' = 0 /\ connectedCount' = 0) ]_vars

\* The inactivity timer elapsed with a client connected and the flag was
\* not set; later, with no client, it was.
InactivityFlagSeen ==
  /\ rebootFlag
  /\ connectedCount = 0
  /\ (now - rebootTimer) > REBOOT_INTERVAL + 1
  /\ loopCounter > 1

-----------------------------------------------------------------------------
(* SpecThermal: the thermal sensor, checkDriverTemperature and the
   maintenance loop. *)

Temperatures ==
  { THROTTLE_TEMP - 1, THROTTLE_TEMP, THROTTLE_TEMP + 1,
    THROTTLE_TEMP + pwrScaler, THROTTLE_TEMP + pwrScaler + 1 }

InitThermal ==
  InitState(SetIndoorBikeSimulationParameters, 0, <<1, 1>>, 0, 0,
            -DEFAULT_RESISTANCE_RANGE, DEFAULT_RESISTANCE_RANGE, 0, 0, -20, 20,
            FALSE)

NextThermal ==
  \/ \E t \in Temperatures : TemperatureChange(t)
  \/ checkDriverTemperature
  \/ maintenanceLoop

SpecThermal == InitThermal /\ [][NextThermal]_vars

\* C19 -- The maintenance task polls the thermal sensor on every iteration:
\* an iteration that finds the drive current throttled and the temperature
\* below the threshold restores the nominal current, and the nominal
\* current is restored only from the throttled state.
ThrottleReversedByMaintenance ==
  /\ [][ (MaintenanceStep /\ overTemp /\ temperature < THROTTLE_TEMP) =>
           (irun' = pwrScaler /\ ~overTemp') ]_vars
  /\ [][ (irun' = pwrScaler /\ irun # pwrScaler) => overTemp ]_vars

\* C20 -- For every reading above the threshold the run current written to
\* the driver is the nominal scaler minus the overage, and strictly below
\* the nominal scaler.
ThrottledBelowNominal ==
  (overTemp /\ tempRead > THROTTLE_TEMP) =>
    /\ irun = pwrScaler - (tempRead - THROTTLE_TEMP)
    /\ irun < pwrScaler

-----------------------------------------------------------------------------
(* SpecRx: chunks arriving on the auxiliary serial port during one
   connection (txSerial still sends requests, no back-off). *)

InitRx ==
  \E rv \in {0, 1} :
    InitState(SetIndoorBikeSimulationParameters, 0, <<1, 1>>, 0, rv,
              -DEFAULT_RESISTANCE_RANGE, DEFAULT_RESISTANCE_RANGE, 0, 0,
              -20, 20, FALSE)

NextRx ==
  \/ \E v \in {0, 1, 2} : rxSerial(v)
  \/ txSerialRequest

SpecRx == InitRx /\ [][NextRx]_vars

\* C22 -- The resistance range is decided by the first chunk received after
\* a connection only: the peer's range if the measured resistance is
\* positive, the default range otherwise; later chunks of the connection
\* leave minResistance and maxResistance as they are.
RangeDecidedOnce ==
  /\ [][ (rxEvents = 0 /\ rxEvents' = 1) =>
           <<minResistance', maxResistance'>> =
             (IF resValue > 0
                THEN <<MIN_PELOTON_RESISTANCE, MAX_PELOTON_RESISTANCE>>
                ELSE <<-DEFAULT_RESISTANCE_RANGE, DEFAULT_RESISTANCE_RANGE>>)
      ]_vars
  /\ [][ (rxEvents >= 1 /\ rxEvents' = rxEvents + 1 /\ txCheck >= 1) =>
           (minResistance' = minResistance /\ maxResistance' = maxResistance)
      ]_vars

-----------------------------------------------------------------------------
(* SpecTx: the probing of the auxiliary serial port after a connection
   event, for the builds TX_CHECK_INTERVAL = 1..MaxTxInterval.  The
   maintenance loop calls txSerial on every iteration (line 207), hence the
   weak fairness; the peer sends at most MaxRxEvents further chunks. *)

InitTx ==
  \E n \in 1..MaxTxInterval, rv \in {0, 1} :
    InitStateInterval(SetIndoorBikeSimulationParameters, 0, <<1, 1>>, 0, rv,
                      PelotonRange(rv)[1], PelotonRange(rv)[2], 0, 0,
                      -20, 20, FALSE, n)

NextTx ==
  \/ txSerial
  \/ \E v \in {0, 1} : rxSerial(v)

SpecTx == InitTx /\ [][NextTx]_vars /\ WF_vars(txSerial)

\* C24 -- Probing never stalls: once no further chunk arrives, repeated
\* txSerial calls count txCheck down, run a back-off of finitely many calls
\* and send requests again, so that for every TX_CHECK_INTERVAL >= 1 the
\* calls are sending requests (txCheck >= 1) again and again.
ProbingNeverStalls == []<>(txCheck >= 1)

-----------------------------------------------------------------------------
(* SpecLog: MaxCallers tasks appending to and reading the debug log. *)

InitLog ==
  InitState(SetIndoorBikeSimulationParameters, 0, <<1, 1>>, 0, 0,
            -DEFAULT_RESISTANCE_RANGE, DEFAULT_RESISTANCE_RANGE, 0, 0,
            -20, 20, FALSE)

NextLog ==
  \E c \in Callers :
    \/ append_logv_internal(c)
    \/ \E w \in -1..MaxWritten : append_logv_vsnprintf(c, w)
    \/ append_logv_length(c)
    \/ get_and_clear_logs_internal(c)
    \/ get_and_clear_logs_clear(c)
    \/ xSemaphoreGive(c)

SpecLog == InitLog /\ [][NextLog]_vars

\* C25 -- Whatever the callers do, 0 <= logBufferLength <=
\* DEBUG_LOG_BUFFER_SIZE; an append that does not fit (or fails to format)
\* sets the length to that of the 4-character marker; a caller that finds
\* the mutex taken returns at once, changing neither the buffer nor the
\* mutex (append dropped, read empty); the mutex is held by exactly the one
\* caller that is inside a function, so every path that took it gives it.
LogBufferSafe ==
  /\ [](/\ logBufferLength >= 0
        /\ logBufferLength <= DEBUG_LOG_BUFFER_SIZE
        /\ \A c \in Callers : (logBufferMutex = c) <=> (logPc[c] # "idle"))
  /\ [][ \A c \in Callers :
           (logPc[c] = "length" /\ logPc'[c] = "give"
              /\ (written < 0
                  \/ logBufferLength + written > DEBUG_LOG_BUFFER_SIZE))
             => logBufferLength' = MarkerLength ]_vars
  /\ [][ \A c \in Callers :
           (logPc[c] = "idle" /\ logOut'[c] # logOut[c])
             => /\ logBufferMutex # 0
                /\ logOut'[c] \in {"dropped", "empty"}
                /\ UNCHANGED <<logBufferLength, logBufferMutex, logPc>> ]_vars

MarkerAndDropSeen ==
  /\ logBufferLength = MarkerLength
  /\ logBufferMutex = 0
  /\ \E c, d \in Callers :
       /\ c # d
       /\ logOut[c] = "marker"
       /\ logOut[d] \in {"dropped", "empty"}

=============================================================================
